---- MODULE Spec2Model ----
(***************************************************************************)
(* Model of read_emails2.py: one run of main() authenticates, creates a    *)
(* month-named Drive folder, searches the mailbox and, message by message  *)
(* and part by part, uploads the attachments whose filename ends with an   *)
(* allowed extension and that are not yet in the folder.                   *)
(*                                                                         *)
(* Python strings are sequences of one-character strings, so that lower(), *)
(* strip(), split(), endswith() and replace() are computed, not assumed.   *)
(* Every remote call is one action with a succeeding and a raising         *)
(* outcome; calls is the sequence of remote calls the run has issued.      *)
(***************************************************************************)
EXTENDS Integers, Sequences, FiniteSets, TLC

\* ------------------------------------------------------------------ bounds
\* Most messages one search returns, and most parts its messages carry in all.
MaxMsgs == 2
MaxParts == 2
\* Most changes another user of the Drive account makes during one run.
MaxOther == 1
\* SpecRuns: runs of the script, and the size of its (smaller) mailbox.
MaxRuns == 2
RunsMaxMsgs == 1
RunsMaxParts == 1

\* ------------------------------------------------------ Python str methods
Min(S) == CHOOSE x \in S : \A y \in S : x <= y
Max(S) == CHOOSE x \in S : \A y \in S : x >= y

\* str.lower() on the alphabet of the model
lower(s) ==
    [k \in 1..Len(s) |->
        CASE s[k] = "A" -> "a"
          [] s[k] = "P" -> "p"
          [] s[k] = "T" -> "t"
          [] OTHER -> s[k]]

\* str.strip(): leading and trailing whitespace removed
strip(s) ==
    LET idx == {k \in 1..Len(s) : s[k] # " "}
    IN  IF idx = {} THEN <<>> ELSE SubSeq(s, Min(idx), Max(idx))

\* str.split(sep): the pieces between the separators; ''.split(',') is ['']
RECURSIVE split(_, _)
split(s, sep) ==
    LET hits == {k \in 1..Len(s) : s[k] = sep}
    IN  IF hits = {} THEN <<s>>
        ELSE <<SubSeq(s, 1, Min(hits) - 1)>>
                 \o split(SubSeq(s, Min(hits) + 1, Len(s)), sep)

\* Mutant of endswith: only the last character is compared.
endswith_last_char(s, suffix) ==
    /\ Len(suffix) <= Len(s)
    /\ s[Len(s)] = suffix[Len(suffix)]

\* str.endswith(suffix)
endswith(s, suffix) ==
    /\ Len(suffix) <= Len(s)
    /\ SubSeq(s, Len(s) - Len(suffix) + 1, Len(s)) = suffix

\* os.getenv(name, default) on an environment entry [set, val]
getenv(entry, default) == IF entry.set THEN entry.val ELSE default

\* [ext.strip().lower() for ext in extensions_env.split(',') if ext.strip()]
ParseAllowedExtensions(extensions_env) ==
    LET pieces == split(extensions_env, ",")
        kept == SelectSeq(pieces, LAMBDA ext : strip(ext) # <<>>)
    IN  [k \in 1..Len(kept) |-> lower(strip(kept[k]))]

\* Mutant of ExtensionAllowed: the filename is not lowercased.
ExtensionAllowed_case_sensitive(filename, allowed) ==
    \E k \in 1..Len(allowed) : endswith(filename, allowed[k])

\* any(filename.lower().endswith(ext) for ext in allowed_extensions)
ExtensionAllowed(filename, allowed) ==
    \E k \in 1..Len(allowed) : endswith(lower(filename), allowed[k])

\* filename and 'attachmentId' in part['body']
IsCandidate(part) == part.filename # <<>> /\ part.body.has_attachmentId

\* ------------------------------------------------------------ Drive queries
\* file_name.replace("'", "\\'")
RECURSIVE safe_name(_)
safe_name(s) ==
    IF s = <<>> THEN <<>>
    ELSE (IF Head(s) = "'" THEN <<"\\", "'">> ELSE <<Head(s)>>)
             \o safe_name(Tail(s))

\* Mutant of ExistsQuery: the folder id is dropped and the root is searched.
ExistsQuery_root(file_name, folder_id) ==
    [parent |-> 0, name_literal |-> safe_name(file_name), trashed |-> FALSE]

\* The query of file_exists_in_drive: parent, quoted name literal, not trashed
ExistsQuery(file_name, folder_id) ==
    [parent |-> folder_id, name_literal |-> safe_name(file_name), trashed |-> FALSE]

\* Drive reading a quoted literal: a backslash escapes the next character, a
\* bare quote ends the literal early and leaves a malformed query.
RECURSIVE DriveLiteral(_)
DriveLiteral(s) ==
    IF s = <<>> THEN [ok |-> TRUE, val |-> <<>>]
    ELSE IF Head(s) = "'" THEN [ok |-> FALSE, val |-> <<>>]
    ELSE IF Head(s) = "\\"
         THEN IF Len(s) < 2 THEN [ok |-> FALSE, val |-> <<>>]
              ELSE LET r == DriveLiteral(SubSeq(s, 3, Len(s)))
                   IN  [ok |-> r.ok, val |-> <<s[2]>> \o r.val]
    ELSE LET r == DriveLiteral(Tail(s))
         IN  [ok |-> r.ok, val |-> <<Head(s)>> \o r.val]

\* Mutant of DriveList: the query's "trashed = false" is lost.
DriveList_any_trashed(files, q) ==
    {f \in files : /\ f.parent = q.parent
                   /\ f.name = DriveLiteral(q.name_literal).val}

\* files().list(q=query): the files the query selects
DriveList(files, q) ==
    {f \in files : /\ f.parent = q.parent
                   /\ f.name = DriveLiteral(q.name_literal).val
                   /\ f.trashed = q.trashed}

\* ------------------------------------------------------------------- inputs
\* Attachment filenames the mail service may return.
Names ==
    { <<"a", ".", "p">>, <<"A", ".", "P">>, <<"a", "p">>, <<"'", ".", "t">> }

\* Values of ALLOWED_EXTENSIONS: unset, empty, blank, dotted, undotted, a list.
EnvExtensions ==
    { [set |-> FALSE, val |-> <<>>],
      [set |-> TRUE, val |-> <<>>],
      [set |-> TRUE, val |-> <<" ", ",", " ">>],
      [set |-> TRUE, val |-> <<".", "p">>],
      [set |-> TRUE, val |-> <<"p">>],
      [set |-> TRUE, val |-> <<" ", ".", "P", ",", ".", "t", ",">>] }

\* Values of GMAIL_SEARCH_QUERY: unset, empty, a query.
EnvQueries ==
    { [set |-> FALSE, val |-> <<>>],
      [set |-> TRUE, val |-> <<>>],
      [set |-> TRUE, val |-> <<"q">>] }

\* The parts a message may carry: a candidate, a part with no filename, a part
\* with a filename whose body holds inline data and no attachmentId.
PartShapes(names) ==
    { [filename |-> n, body |-> [has_attachmentId |-> TRUE]] : n \in names }
        \cup { [filename |-> <<>>, body |-> [has_attachmentId |-> TRUE]],
               [filename |-> <<"a", ".", "p">>, body |-> [has_attachmentId |-> FALSE]] }

SeqsUpTo(S, n) == UNION {[1..k -> S] : k \in 0..n}

\* messages().get: a message with no payload, a payload with no parts, or parts.
MessageShapes(names, maxParts) ==
    { [has_payload |-> FALSE, has_parts |-> FALSE, parts |-> <<>>],
      [has_payload |-> TRUE, has_parts |-> FALSE, parts |-> <<>>] }
        \cup { [has_payload |-> TRUE, has_parts |-> TRUE, parts |-> ps] :
                   ps \in SeqsUpTo(PartShapes(names), maxParts) }

\* datetime.now(): the months a run may fall in, as [month, year], in order
Clock == << [month |-> 11, year |-> 2026], [month |-> 12, year |-> 2026] >>

Digit(d) == <<"0", "1", "2", "3", "4", "5", "6", "7", "8", "9">>[d + 1]

\* strftime("%m-%Y"): two-digit month, dash, four-digit year
FolderName(date) ==
    << Digit(date.month \div 10), Digit(date.month % 10), "-",
       Digit(date.year \div 1000), Digit((date.year \div 100) % 10),
       Digit((date.year \div 10) % 10), Digit(date.year % 10) >>

\* The parent of a file created with no 'parents': the root of My Drive
Root == 0

\* -------------------------------------------------------------------- state
VARIABLES
    environ,             \* os.environ: ALLOWED_EXTENSIONS, GMAIL_SEARCH_QUERY
    now,                 \* the system clock: an index of Clock
    pc,                  \* where main() stands
    err,                 \* what main() printed on its way out: none, config, exception
    drive,               \* the Drive account: files and folders
    next_id,             \* Drive's next fresh id
    drive_folder_id,     \* main's drive_folder_id
    allowed_extensions,  \* download_attachments' allowed_extensions
    messages,            \* download_attachments' messages: the ids the search returned
    msg_idx,             \* which of messages the for loop stands at
    message,             \* the message of the last get
    part_idx,            \* which of its parts the inner loop stands at
    calls,               \* the remote calls this run issued, in order
    others,              \* changes another Drive user made during this run
    runs,                \* runs started so far
    served,              \* parts the mail service has served to this run
    profile              \* which mailbox the mail service serves: "full", "small"

vars ==
    << environ, now, pc, err, drive, next_id, drive_folder_id, allowed_extensions,
       messages, msg_idx, message, part_idx, calls, others, runs, served,
       profile >>

\* The locals of download_attachments
locals == << allowed_extensions, messages, msg_idx, message, part_idx >>

\* What never changes within one run
fixed == << environ, now, runs, profile >>

NoAtt == <<0, 0>>

NoMessage == [id |-> 0, has_payload |-> FALSE, has_parts |-> FALSE, parts |-> <<>>]

\* What the mail service can answer to a search and to a get
MailMaxMsgs == IF profile = "small" THEN RunsMaxMsgs ELSE MaxMsgs
MailShapes ==
    IF profile = "small"
    THEN MessageShapes({<<"a", ".", "p">>}, RunsMaxParts - served)
    ELSE MessageShapes(Names, MaxParts - served)

\* messages().list: the ids of n matching messages, newest first
SearchResult(n) == [k \in 1..n |-> n + 1 - k]

\* The message the mail service returns for id: the shape m, each attachment
\* under an id of its own.
Served(m, id) ==
    [id |-> id, has_payload |-> m.has_payload, has_parts |-> m.has_parts,
     parts |->
        [k \in 1..Len(m.parts) |->
            [filename |-> m.parts[k].filename,
             body |-> [has_attachmentId |-> m.parts[k].body.has_attachmentId,
                       attachmentId |-> IF m.parts[k].body.has_attachmentId
                                        THEN <<id, k>> ELSE NoAtt]]]]

\* A file or folder of the Drive account; run is the run that created it
\* (0: another user).
File(id, name, parent, kind, run) ==
    [id |-> id, name |-> name, parent |-> parent, trashed |-> FALSE,
     kind |-> kind, run |-> run]

\* One remote call: the operation, the message and part it was issued for, the
\* file name and parent folder or the attachment id it carried, how it ended
\* (ok, fail; exists, absent for the existence check) and the ids it returned.
Call(op, m, p, name, parent, att, res, ret) ==
    [op |-> op, msg |-> m, part |-> p, name |-> name, parent |-> parent,
     att |-> att, res |-> res, ret |-> ret]

\* Mutant of Raise: the error is swallowed where it occurs and the call retried.
Raise_and_retry(call) ==
    /\ calls' = Append(calls, call)
    /\ err' = err
    /\ pc' = pc

\* A remote call raising: nothing catches it before main's except clause,
\* which prints the error; main then returns.
Raise(call) ==
    /\ calls' = Append(calls, call)
    /\ err' = "exception"
    /\ pc' = "done"

\* Mutant of CurrentMsgId: the ids are sorted before the loop.
CurrentMsgId_sorted == msg_idx

\* msg_id = msg['id'] of the message the for loop stands at
CurrentMsgId == messages[msg_idx]

CurrentPart == message.parts[part_idx]

\* if 'payload' in message and 'parts' in message['payload']
HasParts(m) == m.has_payload /\ m.has_parts

\* Mutant of QueryMissing: "query is None" in place of "not query".
QueryMissing_unset_only(query) == ~query.set

\* if not query
QueryMissing(query) == ~query.set \/ query.val = <<>>

\* Mutant of NextMessage: the loop is left after the first message.
NextMessage_stop ==
    /\ msg_idx' = msg_idx
    /\ pc' = "done"

\* for msg in messages: the next message, or the end of download_attachments
NextMessage ==
    IF msg_idx < Len(messages)
    THEN /\ msg_idx' = msg_idx + 1
         /\ pc' = "get"
    ELSE /\ msg_idx' = msg_idx
         /\ pc' = "done"

\* Mutant of FolderMetadata: a folder of that name is looked up and reused.
FolderMetadata_reuse(date) ==
    LET same == {f \in drive : f.kind = "folder" /\ f.name = FolderName(date)}
    IN  IF same = {} THEN File(next_id, FolderName(date), 0, "folder", runs)
        ELSE CHOOSE f \in same : TRUE

\* create_drive_folder's file_metadata: the folder, which Drive stores under a
\* fresh id whatever the account holds already
FolderMetadata(date) == File(next_id, FolderName(date), Root, "folder", runs)

\* Mutant of UploadMetadata: 'parents' is left out and the file lands in the root.
UploadMetadata_no_parents(file_name, folder_id) == File(next_id, file_name, 0, "file", runs)

\* upload_to_drive's file_metadata: name and parents
UploadMetadata(file_name, folder_id) == File(next_id, file_name, folder_id, "file", runs)

InitLocals ==
    /\ pc = "auth"
    /\ err = "none"
    /\ drive_folder_id = Root
    /\ allowed_extensions = <<>>
    /\ messages = <<>>
    /\ msg_idx = 0
    /\ message = NoMessage
    /\ part_idx = 0
    /\ calls = <<>>
    /\ others = 0
    /\ served = 0

Init ==
    /\ environ \in [ALLOWED_EXTENSIONS : EnvExtensions, GMAIL_SEARCH_QUERY : EnvQueries]
    /\ now = 1
    /\ drive = {}
    /\ next_id = 1
    /\ runs = 1
    /\ profile = "full"
    /\ InitLocals

\* main, steps 1 and 2: get_credentials() and the two build() calls.  The
\* cached token is valid, or is refreshed, or the OAuth flow runs; an unset
\* token path, a missing client secret or a failing identity provider raises.
get_credentials ==
    /\ pc = "auth"
    /\ \E token \in {"unset", "valid", "expired", "absent"},
          secret \in BOOLEAN, provider_ok \in BOOLEAN :
           LET ok == CASE token = "unset" -> FALSE
                       [] token = "valid" -> TRUE
                       [] token = "expired" -> provider_ok
                       [] OTHER -> secret /\ provider_ok
           IN  /\ pc' = IF ok THEN "mkfolder" ELSE "done"
               /\ err' = IF ok THEN err ELSE "exception"
    /\ UNCHANGED << fixed, drive, next_id, drive_folder_id, locals, calls,
                    others, served >>

\* create_drive_folder(service): files().create of a folder named by the run
\* date.  A call that raises may or may not have reached the account.
create_drive_folder ==
    /\ pc = "mkfolder"
    /\ \E outcome \in {"ok", "fail", "fail_stored"} :
           LET folder == FolderMetadata(Clock[now])
               call(res) == Call("files_create_folder", 0, 0, FolderName(Clock[now]),
                                 Root, NoAtt, res,
                                 IF res = "ok" THEN <<folder.id>> ELSE <<>>)
           IN  /\ drive' = IF outcome # "fail" THEN drive \cup {folder} ELSE drive
               /\ next_id' = IF outcome # "fail" THEN next_id + 1 ELSE next_id
               /\ IF outcome = "ok"
                  THEN /\ drive_folder_id' = folder.id
                       /\ calls' = Append(calls, call("ok"))
                       /\ pc' = "query"
                       /\ err' = err
                  ELSE /\ drive_folder_id' = drive_folder_id
                       /\ Raise(call("fail"))
    /\ UNCHANGED << fixed, locals, others, served >>

\* main, step 4: query = os.getenv('GMAIL_SEARCH_QUERY'); if not query: print, return
check_query ==
    /\ pc = "query"
    /\ IF QueryMissing(environ.GMAIL_SEARCH_QUERY)
       THEN /\ err' = "config"
            /\ pc' = "done"
       ELSE /\ err' = err
            /\ pc' = "list"
    /\ UNCHANGED << fixed, drive, next_id, drive_folder_id, locals, calls,
                    others, served >>

\* download_attachments up to the for loop: parse ALLOWED_EXTENSIONS, one
\* messages().list call, return when it found nothing.
list_messages ==
    /\ pc = "list"
    /\ allowed_extensions' =
           ParseAllowedExtensions(getenv(environ.ALLOWED_EXTENSIONS, <<>>))
    /\ \E n \in 0..MailMaxMsgs, ok \in BOOLEAN :
           IF ok
           THEN /\ messages' = SearchResult(n)
                /\ calls' = Append(calls,
                       Call("messages_list", 0, 0, <<>>, Root, NoAtt, "ok", SearchResult(n)))
                /\ msg_idx' = IF n = 0 THEN 0 ELSE 1
                /\ pc' = IF n = 0 THEN "done" ELSE "get"
                /\ err' = err
           ELSE /\ n = 0
                /\ UNCHANGED << messages, msg_idx >>
                /\ Raise(Call("messages_list", 0, 0, <<>>, Root, NoAtt, "fail", <<>>))
    /\ UNCHANGED << fixed, drive, next_id, drive_folder_id, message, part_idx,
                    others, served >>

\* for msg in messages: messages().get of the message; a message with no
\* payload or no parts is passed over.
get_message ==
    /\ pc = "get"
    /\ \E m \in MailShapes, ok \in BOOLEAN :
           LET call(res) == Call("messages_get", CurrentMsgId, 0, <<>>, Root, NoAtt, res, <<>>)
           IN  IF ok
               THEN /\ message' = Served(m, CurrentMsgId)
                    /\ served' = served + Len(m.parts)
                    /\ calls' = Append(calls, call("ok"))
                    /\ err' = err
                    /\ IF HasParts(m)
                       THEN /\ part_idx' = 1
                            /\ pc' = "part"
                            /\ msg_idx' = msg_idx
                       ELSE /\ part_idx' = 1
                            /\ NextMessage
               ELSE /\ m = NoMessage
                    /\ UNCHANGED << message, part_idx, msg_idx, served >>
                    /\ Raise(call("fail"))
    /\ UNCHANGED << fixed, drive, next_id, drive_folder_id, allowed_extensions,
                    messages, others >>

\* for part in parts: a part that is no candidate, or whose filename ends with
\* no allowed extension, is passed over; the others go to the existence check.
scan_part ==
    /\ pc = "part"
    /\ part_idx <= Len(message.parts)
    /\ IF IsCandidate(CurrentPart)
          /\ ExtensionAllowed(CurrentPart.filename, allowed_extensions)
       THEN /\ pc' = "exists"
            /\ part_idx' = part_idx
       ELSE /\ pc' = "part"
            /\ part_idx' = part_idx + 1
    /\ UNCHANGED << fixed, err, drive, next_id, drive_folder_id, allowed_extensions,
                    messages, msg_idx, message, calls, others, served >>

\* the parts of the message are exhausted
end_parts ==
    /\ pc = "part"
    /\ part_idx > Len(message.parts)
    /\ NextMessage
    /\ UNCHANGED << fixed, err, drive, next_id, drive_folder_id, allowed_extensions,
                    messages, message, part_idx, calls, others, served >>

\* file_exists_in_drive(drive_service, filename, drive_folder_id) and the
\* continue that follows a True.  Drive refuses a malformed query.
file_exists_in_drive ==
    /\ pc = "exists"
    /\ LET q == ExistsQuery(CurrentPart.filename, drive_folder_id)
           found == DriveList(drive, q)
           call(res) == Call("files_list", message.id, part_idx,
                             CurrentPart.filename, q.parent, NoAtt, res, <<>>)
       IN  \E ok \in BOOLEAN :
               IF ok /\ DriveLiteral(q.name_literal).ok
               THEN /\ calls' = Append(calls,
                           call(IF found # {} THEN "exists" ELSE "absent"))
                    /\ err' = err
                    /\ IF found # {}
                       THEN /\ part_idx' = part_idx + 1
                            /\ pc' = "part"
                       ELSE /\ part_idx' = part_idx
                            /\ pc' = "fetch"
               ELSE /\ part_idx' = part_idx
                    /\ Raise(call("fail"))
    /\ UNCHANGED << fixed, drive, next_id, drive_folder_id, allowed_extensions,
                    messages, msg_idx, message, others, served >>

\* attachments().get of the part's attachment and the base64 decoding of its data
get_attachment ==
    /\ pc = "fetch"
    /\ LET call(res) == Call("attachments_get", message.id, part_idx,
                             <<>>, Root, CurrentPart.body.attachmentId, res, <<>>)
       IN  \E ok \in BOOLEAN :
               IF ok
               THEN /\ calls' = Append(calls, call("ok"))
                    /\ err' = err
                    /\ pc' = "upload"
               ELSE Raise(call("fail"))
    /\ UNCHANGED << fixed, drive, next_id, drive_folder_id, locals, others, served >>

\* upload_to_drive(drive_service, filename, file_data, drive_folder_id).  A
\* call that raises may or may not have reached the account.
upload_to_drive ==
    /\ pc = "upload"
    /\ LET file == UploadMetadata(CurrentPart.filename, drive_folder_id)
           call(res) == Call("files_create", message.id, part_idx,
                             file.name, file.parent, NoAtt, res,
                             IF res = "ok" THEN <<file.id>> ELSE <<>>)
       IN  \E outcome \in {"ok", "fail", "fail_stored"} :
               /\ drive' = IF outcome # "fail" THEN drive \cup {file} ELSE drive
               /\ next_id' = IF outcome # "fail" THEN next_id + 1 ELSE next_id
               /\ IF outcome = "ok"
                  THEN /\ calls' = Append(calls, call("ok"))
                       /\ err' = err
                       /\ part_idx' = part_idx + 1
                       /\ pc' = "part"
                  ELSE /\ part_idx' = part_idx
                       /\ Raise(call("fail"))
    /\ UNCHANGED << fixed, drive_folder_id, allowed_extensions, messages,
                    msg_idx, message, others, served >>

\* Another user of the Drive account puts a file of the name under check into
\* the run's folder, or trashes the folder's file of that name.  The run reads
\* the folder only in the existence check and writes it only in the upload,
\* so the change is taken right before one of the two.
other_user ==
    /\ pc \in {"exists", "upload"}
    /\ others < MaxOther
    /\ others' = others + 1
    /\ \/ /\ drive' = drive \cup
                  {File(next_id, CurrentPart.filename, drive_folder_id, "file", 0)}
          /\ next_id' = next_id + 1
       \/ \E f \in drive :
              /\ f.parent = drive_folder_id
              /\ f.name = CurrentPart.filename
              /\ ~f.trashed
              /\ drive' = (drive \ {f}) \cup {[f EXCEPT !.trashed = TRUE]}
              /\ next_id' = next_id
    /\ UNCHANGED << fixed, pc, err, drive_folder_id, locals, calls, served >>

\* The script is started again, the same day or later: a new process, the
\* same .env and the same Drive account.
rerun ==
    /\ pc = "done"
    /\ runs < MaxRuns
    /\ runs' = runs + 1
    /\ now' \in {c \in 1..Len(Clock) : c >= now}
    /\ pc' = "auth"
    /\ err' = "none"
    /\ drive_folder_id' = Root
    /\ allowed_extensions' = <<>>
    /\ messages' = <<>>
    /\ msg_idx' = 0
    /\ message' = NoMessage
    /\ part_idx' = 0
    /\ calls' = <<>>
    /\ others' = 0
    /\ served' = 0
    /\ UNCHANGED << environ, drive, next_id, profile >>

Next ==
    \/ get_credentials
    \/ create_drive_folder
    \/ check_query
    \/ list_messages
    \/ get_message
    \/ scan_part
    \/ end_parts
    \/ file_exists_in_drive
    \/ get_attachment
    \/ upload_to_drive
    \/ other_user

Spec == Init /\ [][Next]_vars

\* Several runs of the script against one Drive account, on a small mailbox.
InitRuns ==
    /\ environ = [ALLOWED_EXTENSIONS |-> [set |-> TRUE, val |-> <<".", "p">>],
                  GMAIL_SEARCH_QUERY |-> [set |-> TRUE, val |-> <<"q">>]]
    /\ now = 1
    /\ drive = {}
    /\ next_id = 1
    /\ runs = 1
    /\ profile = "small"
    /\ InitLocals

NextRuns == Next \/ rerun

SpecRuns == InitRuns /\ [][NextRuns]_vars

\* ------------------------------------------------------- reading a run
\* The positions in calls of the calls of one operation, and of one part
Ops(op) == {n \in 1..Len(calls) : calls[n].op = op}
PartCalls(m, k) == {n \in 1..Len(calls) : calls[n].msg = m /\ calls[n].part = k}
PartOps(m, k, op) == {n \in PartCalls(m, k) : calls[n].op = op}

\* The parts of the message at hand, and those among them that are candidates:
\* a non-empty filename and an attachmentId in the body
PartsAtHand == IF message.id = 0 THEN {} ELSE 1..Len(message.parts)
Candidates ==
    {k \in PartsAtHand : /\ Len(message.parts[k].filename) > 0
                         /\ message.parts[k].body.attachmentId # NoAtt}
NameOf(k) == message.parts[k].filename

\* The inner loop is past part k of the message at hand
Passed(k) == k < part_idx

\* The run has ended, by a return or by the except clause
Ended == pc = "done"

\* Lowercase by table, and suffixes by concatenation
CasePairs == { <<"a", "A">>, <<"p", "P">>, <<"t", "T">> }
ToLower(c) ==
    IF \E cp \in CasePairs : cp[2] = c
    THEN (CHOOSE cp \in CasePairs : cp[2] = c)[1]
    ELSE c
Lowered(f) == [i \in 1..Len(f) |-> ToLower(f[i])]
IsSuffix(e, g) == \E n \in 0..Len(g) : SubSeq(g, n + 1, Len(g)) = e

\* The entries of an ALLOWED_EXTENSIONS value v: of every comma-free stretch
\* between two commas (or an end of v), what lies between its first and its
\* last non-blank character, lowercased; a blank stretch gives no entry.
EntrySpans(v) ==
    { ab \in (1..Len(v)) \X (1..Len(v)) :
        /\ ab[1] <= ab[2]
        /\ v[ab[1]] \notin {" ", ","}
        /\ v[ab[2]] \notin {" ", ","}
        /\ \A k \in ab[1]..ab[2] : v[k] # ","
        /\ \E i \in 1..ab[1] :
              /\ i = 1 \/ v[i - 1] = ","
              /\ \A k \in i..(ab[1] - 1) : v[k] = " "
        /\ \E j \in ab[2]..Len(v) :
              /\ j = Len(v) \/ v[j + 1] = ","
              /\ \A k \in (ab[2] + 1)..j : v[k] = " " }
EntriesOf(v) == { Lowered(SubSeq(v, ab[1], ab[2])) : ab \in EntrySpans(v) }

\* The allowed-extension set this run is configured with
Configured ==
    EntriesOf(IF environ.ALLOWED_EXTENSIONS.set
              THEN environ.ALLOWED_EXTENSIONS.val ELSE <<>>)

\* (a) of the upload rule: the filename ends, case-insensitively, with an entry
EndsWithEntry(f) == \E e \in Configured : IsSuffix(e, Lowered(f))

\* A non-trashed object of exactly this name lies in this folder
LiesIn(name, folder) ==
    \E f \in drive : f.name = name /\ f.parent = folder /\ ~f.trashed

\* ---------------------------------------------------------------------- C1
\* What became of candidate k of the message at hand
UploadCalls(k) == PartOps(message.id, k, "files_create")
Uploaded(k) == \E n \in UploadCalls(k) : calls[n].res = "ok"
CheckedAbsent(k) ==
    \E n \in PartOps(message.id, k, "files_list") : calls[n].res = "absent"
CheckedExists(k) ==
    \E n \in PartOps(message.id, k, "files_list") : calls[n].res = "exists"
NoCallFailed(k) == \A n \in PartCalls(message.id, k) : calls[n].res # "fail"

\* The answer of the existence check is the state of the folder: right after
\* "absent" no non-trashed object of the name lies in the run's folder, right
\* after "exists" one does.
GuardReadsFolder ==
    /\ pc = "fetch" => ~LiesIn(NameOf(part_idx), drive_folder_id)
    /\ \A k \in Candidates :
          (pc = "part" /\ part_idx = k + 1 /\ CheckedExists(k))
              => LiesIn(NameOf(k), drive_folder_id)

\* C1 as stated: every candidate the run is done with is uploaded at most
\* once, and is uploaded iff its filename ends with an allowed extension and
\* its existence check found no object of that name.
C1_UploadIffAllowedAndAbsent ==
    \A k \in Candidates :
        (Passed(k) \/ Ended) =>
            /\ Cardinality(UploadCalls(k)) <= 1
            /\ Uploaded(k) <=> (EndsWithEntry(NameOf(k)) /\ CheckedAbsent(k))

\* C1 as amended: every candidate is checked and uploaded at most once; it is
\* uploaded only if its filename ends with an allowed extension and its
\* existence check found no non-trashed object of that name in the folder, and
\* then it is uploaded unless one of its remote calls raised; a candidate the
\* guard reported as existing gets no upload call.
C1_UploadRule ==
    /\ GuardReadsFolder
    /\ \A k \in Candidates :
          /\ Cardinality(UploadCalls(k)) <= 1
          /\ Cardinality(PartOps(message.id, k, "files_list")) <= 1
          /\ UploadCalls(k) # {} => (EndsWithEntry(NameOf(k)) /\ CheckedAbsent(k))
          /\ CheckedExists(k) => UploadCalls(k) = {}
          /\ (Passed(k) \/ Ended) =>
                (Uploaded(k) <=>
                    (EndsWithEntry(NameOf(k)) /\ CheckedAbsent(k) /\ NoCallFailed(k)))

\* Both sides of the rule in one run: a candidate the guard held back because
\* a non-trashed file of its name lay in the folder, after an upload.
C1_Witness ==
    /\ pc = "part"
    /\ \E k \in Candidates : Passed(k) /\ CheckedExists(k) /\ UploadCalls(k) = {}
    /\ \E n \in Ops("files_create") : calls[n].res = "ok"

\* ---------------------------------------------------------------------- C2
\* Bound of the filter law: the longest ALLOWED_EXTENSIONS value and filename
MaxLen == 3
EnvAlphabet == {" ", ",", ".", "p", "P"}
NameAlphabet == {"a", ".", "p", "P"}

\* On every ALLOWED_EXTENSIONS value and filename up to MaxLen: the parsed
\* list holds exactly the entries of the value, and the filter accepts the
\* filename iff an entry is a suffix of the lowercased filename.
FilterLaw ==
    \A v \in SeqsUpTo(EnvAlphabet, MaxLen) :
        LET parsed == ParseAllowedExtensions(v)
        IN  /\ {parsed[k] : k \in 1..Len(parsed)} = EntriesOf(v)
            /\ \A f \in SeqsUpTo(NameAlphabet, MaxLen) :
                  ExtensionAllowed(f, parsed)
                      <=> \E e \in EntriesOf(v) : IsSuffix(e, Lowered(f))

\* The filter took candidate k of the message at hand: the run went on to its
\* existence check
Accepted(k) ==
    \/ PartOps(message.id, k, "files_list") # {}
    \/ k = part_idx /\ pc = "exists"

\* The search has been issued, so ALLOWED_EXTENSIONS has been parsed
Parsed == \E n \in Ops("messages_list") : calls[n].res = "ok"

\* C2: the run's allowed-extension list holds exactly the entries of
\* ALLOWED_EXTENSIONS (comma-split, trimmed, lowercased, empty ones dropped);
\* the filter accepts a candidate iff an entry is a suffix of its lowercased
\* filename; with no entry nothing is accepted and the run issues no existence
\* check and no upload.
C2_FilterAcceptsIffSuffix ==
    /\ FilterLaw
    /\ Parsed => {allowed_extensions[k] : k \in 1..Len(allowed_extensions)} = Configured
    /\ \A k \in Candidates :
          (Passed(k) \/ Accepted(k)) => (Accepted(k) <=> EndsWithEntry(NameOf(k)))
    /\ Configured = {} =>
          /\ Ops("files_list") = {}
          /\ Ops("files_create") = {}
          /\ \A k \in Candidates : ~Accepted(k)

\* "A.P" accepted under " .P,.t," and "ap" passed over in the same message
C2_Witness ==
    /\ environ.ALLOWED_EXTENSIONS.val = <<" ", ".", "P", ",", ".", "t", ",">>
    /\ \E k \in Candidates : NameOf(k) = <<"A", ".", "P">> /\ Accepted(k)
    /\ \E k \in Candidates : NameOf(k) = <<"a", "p">> /\ Passed(k) /\ ~Accepted(k)

\* ---------------------------------------------------------------------- C3
HasNoDot(f) == \A i \in 1..Len(f) : f[i] # "."

\* The extension of a filename with a dot: from its last dot on, lowercased
ExtensionOf(f) ==
    LET g == Lowered(f)
        last == Max({i \in 1..Len(g) : g[i] = "."})
    IN  SubSeq(g, last, Len(g))

\* The extension is configured: as an entry, or as an entry written without
\* its leading dot
ExtensionConfigured(f) ==
    \/ ExtensionOf(f) \in Configured
    \/ Tail(ExtensionOf(f)) \in Configured

\* Candidate k of the message at hand was silently skipped: no remote call was
\* issued for it, none is about to be, and the run did not end on it.
Skipped(k) ==
    /\ PartCalls(message.id, k) = {}
    /\ ~(k = part_idx /\ pc \in {"exists", "fetch", "upload"})
    /\ ~(k = part_idx /\ Ended /\ err = "exception")

\* The filter has decided on candidate k
Decided(k) == Passed(k) \/ Accepted(k)

\* C3 as stated: whatever the configured entries, a candidate whose filename
\* has no '.', or whose extension is not configured, is silently skipped.
C3_NoExtensionIsSkipped ==
    \A k \in Candidates :
        (Decided(k) /\ (HasNoDot(NameOf(k)) \/ ~ExtensionConfigured(NameOf(k))))
            => Skipped(k)

\* Every configured entry is a dot followed by dot-free characters
DottedEntries ==
    \A e \in Configured : e[1] = "." /\ HasNoDot(Tail(e))

\* C3 as amended: a candidate whose lowercased filename ends with no
\* configured entry is silently skipped; when every entry is a dot followed by
\* dot-free characters, these are the candidates with no '.' in the filename
\* or with an extension that is not configured.
C3_NoSuffixIsSkipped ==
    \A k \in Candidates :
        /\ (Decided(k) /\ ~EndsWithEntry(NameOf(k))) => Skipped(k)
        /\ (DottedEntries /\ Decided(k)
              /\ (HasNoDot(NameOf(k)) \/ ~ExtensionConfigured(NameOf(k))))
              => Skipped(k)

\* "ap" (no '.') skipped under ".p", and the run went on to check the next part
C3_Witness ==
    /\ environ.ALLOWED_EXTENSIONS.val = <<".", "p">>
    /\ err = "none"
    /\ \E k \in Candidates : NameOf(k) = <<"a", "p">> /\ Passed(k) /\ Skipped(k)
    /\ Ops("files_list") # {}

\* ---------------------------------------------------------------------- C4
\* The existence checks and the upload calls issued for a filename, and the
\* allowed candidates of that name the run never reached
ChecksOf(f) == {n \in Ops("files_list") : calls[n].name = f}
UploadsOf(f) == {n \in Ops("files_create") : calls[n].name = f}
Unreached(f) ==
    {k \in Candidates : /\ NameOf(k) = f
                        /\ EndsWithEntry(f)
                        /\ PartOps(message.id, k, "files_list") = {}}

\* The first occurrence of f was uploaded, every later one found existing,
\* and one upload call was issued for f in all.
UploadedOnce(f) ==
    LET first == Min(ChecksOf(f))
    IN  /\ calls[first].res = "absent"
        /\ \A n \in ChecksOf(f) \ {first} : calls[n].res = "exists"
        /\ Cardinality(UploadsOf(f)) = 1
        /\ \A n \in UploadsOf(f) :
              /\ calls[n].res = "ok"
              /\ calls[n].msg = calls[first].msg
              /\ calls[n].part = calls[first].part

\* C4 as stated: when only this run changes the folder and an allowed
\* filename occurs twice or more, the run ends with the first occurrence
\* uploaded, the later ones found existing and one upload call for the name.
C4_SameNameUploadedOnce ==
    (Ended /\ others = 0) =>
        \A f \in Names :
            (Cardinality(ChecksOf(f)) + Cardinality(Unreached(f)) >= 2)
                => (ChecksOf(f) # {} /\ UploadedOnce(f))

\* C4 as amended: when only this run changes the folder, at most one upload
\* call is issued for a filename, only its first existence check can answer
\* "absent", and a run in which no remote call fails ends with the first
\* occurrence uploaded, every later one found existing and exactly one upload
\* call for the name.
C4_SameNameUploadedOnceUnlessAborted ==
    others = 0 =>
        \A f \in Names :
            /\ Cardinality(UploadsOf(f)) <= 1
            /\ \A n \in ChecksOf(f) : calls[n].res = "absent" => n = Min(ChecksOf(f))
            /\ (Ended /\ err = "none" /\ ChecksOf(f) # {}) => UploadedOnce(f)

\* "a.p" in two messages, the run ended without an error
C4_Witness ==
    /\ Ended
    /\ err = "none"
    /\ others = 0
    /\ \E n1, n2 \in ChecksOf(<<"a", ".", "p">>) : calls[n1].msg # calls[n2].msg
    /\ UploadedOnce(<<"a", ".", "p">>)

\* ---------------------------------------------------------------------- C5
\* The place of a message id in the search result
Pos(id) == CHOOSE k \in 1..Len(messages) : messages[k] = id

\* The message at hand has no payload or no parts
Partless == message.id # 0 /\ ~(message.has_payload /\ message.has_parts)

\* C5: for a message with no 'payload' or no 'parts' nothing is raised and no
\* existence check, attachment fetch or upload is issued; the run goes on to
\* the get of the next message of the list, or ends without an error when the
\* message was the last.
C5_PartlessMessageIsPassedOver ==
    Partless =>
        LET last == calls[Len(calls)]
            pos == Pos(message.id)
        IN  /\ \A n \in 1..Len(calls) : calls[n].msg = message.id =>
                  (calls[n].op = "messages_get" /\ calls[n].res = "ok")
            /\ \/ /\ last.op = "messages_get"
                  /\ last.msg = message.id
                  /\ err = "none"
                  /\ IF pos < Len(messages)
                     THEN pc = "get" /\ msg_idx = pos + 1
                     ELSE Ended
               \/ /\ pos < Len(messages)
                  /\ last.op = "messages_get"
                  /\ last.msg = messages[pos + 1]
                  /\ last.res = "fail"

\* A message with a payload and no parts, first of two: the run stands at the
\* get of the second
C5_Witness ==
    /\ Partless
    /\ message.has_payload
    /\ Pos(message.id) = 1
    /\ pc = "get"
    /\ msg_idx = 2

NoQuery ==
    environ.GMAIL_SEARCH_QUERY.set = FALSE \/ Len(environ.GMAIL_SEARCH_QUERY.val) = 0

\* The folder creation of this run has been performed
FolderCreated == Len(calls) >= 1 /\ calls[1].op = "files_create_folder" /\ calls[1].res = "ok"

\* C7: with GMAIL_SEARCH_QUERY unset or empty the only remote call of a run is
\* the one folder creation; once that is performed the run ends on the
\* configuration error, and it prints that error in no other case.
C7_MissingQueryStopsBeforeMail ==
    /\ NoQuery =>
          /\ Len(calls) <= 1
          /\ \A n \in 1..Len(calls) : calls[n].op = "files_create_folder"
          /\ FolderCreated => (pc = "query" \/ (Ended /\ err = "config"))
    /\ err = "config" => (NoQuery /\ Ended /\ FolderCreated)

\* GMAIL_SEARCH_QUERY set to the empty string: the run has ended on the
\* configuration error, the folder created
C7_Witness ==
    /\ environ.GMAIL_SEARCH_QUERY.set
    /\ NoQuery
    /\ Ended
    /\ err = "config"
    /\ Len(calls) = 1
    /\ \E f \in drive : f.kind = "folder"

\* ---------------------------------------------------------------------- C8
\* Call n1 comes before call n2 in message-then-part order
Before(n1, n2) ==
    \/ Pos(calls[n1].msg) < Pos(calls[n2].msg)
    \/ calls[n1].msg = calls[n2].msg /\ calls[n1].part < calls[n2].part

\* C8: one search call; the k-th get is for the k-th id of the search result;
\* the calls of a message and of a part follow each other in message-then-part
\* order, so no call for a message comes after the get of a later one; the
\* existence checks, and the uploads, each come in strictly that order, and
\* each is for a candidate under its filename.
C8_CallsFollowSearchOrder ==
    /\ Cardinality(Ops("messages_list")) <= 1
    /\ \A n \in Ops("messages_get") :
          /\ \A l \in Ops("messages_list") : l < n
          /\ calls[n].msg = messages[Cardinality({g \in Ops("messages_get") : g <= n})]
    /\ \A n1, n2 \in 1..Len(calls) :
          (n1 < n2 /\ calls[n1].msg # 0) =>
              /\ calls[n2].msg # 0
              /\ Before(n1, n2) \/
                    (calls[n1].msg = calls[n2].msg /\ calls[n1].part = calls[n2].part)
              /\ calls[n1].op = calls[n2].op => Before(n1, n2)
    /\ \A n \in Ops("files_list") \cup Ops("files_create") :
          calls[n].msg = message.id =>
              (calls[n].part \in Candidates /\ calls[n].name = NameOf(calls[n].part))

\* Two messages, an existence check for a part of each
C8_Witness ==
    /\ Len(messages) = 2
    /\ messages[1] # 1
    /\ \E n1, n2 \in Ops("files_list") :
          n1 < n2 /\ calls[n1].msg = messages[1] /\ calls[n2].msg = messages[2]

\* ---------------------------------------------------------------------- C9
\* The folders of the account, and those a given run created
Folders == {f \in drive : f.kind = "folder"}
FoldersOf(r) == {f \in Folders : f.run = r}

\* The run got past authentication and past destination preparation
Prepared == pc \notin {"auth", "mkfolder"} /\ Len(calls) >= 1

\* C9: a run that authenticated issues one folder creation, as its first
\* remote call, so before any mail call and with no lookup before it, named by
\* the current month and year; the folder it returns is a new one of this run
\* whatever the account holds, so every run owns a folder of its own, the
\* folders of runs in one month share their name, and a file of an earlier run
\* lies in no folder the duplicate guard of this run looks into.
C9_FolderAlwaysCreatedAnew ==
    /\ pc \notin {"auth", "mkfolder"} =>
          \/ Len(calls) = 0 /\ Ended /\ err = "exception"
          \/ /\ Ops("files_create_folder") = {1}
             /\ calls[1].name = FolderName(Clock[now])
             /\ calls[1].parent = Root
    /\ pc \in {"auth", "mkfolder"} => calls = <<>>
    /\ FolderCreated =>
          /\ FoldersOf(runs) = {File(drive_folder_id, FolderName(Clock[now]), Root, "folder", runs)}
          /\ calls[1].ret = <<drive_folder_id>>
          /\ \A f, g \in drive : f.id = g.id => f = g
          /\ \A f \in drive : (f.kind = "file" /\ f.run \notin {0, runs}) => f.parent # drive_folder_id
          /\ \A n \in Ops("files_list") :
                calls[n].res = "exists" =>
                    \E f \in drive : /\ f.name = calls[n].name
                                     /\ f.parent = drive_folder_id
                                     /\ f.run \in {0, runs}
          /\ others = 0 =>
                \A f \in Names : \A n \in ChecksOf(f) :
                    n = Min(ChecksOf(f)) => calls[n].res # "exists"
    /\ \A r \in 1..MaxRuns : Cardinality(FoldersOf(r)) <= 1
    /\ \A f \in Folders : f.run \in 1..runs /\ f.parent = Root

\* Two runs in one month: two folders of one name, and the second run's guard
\* answers "absent" for a filename the first run uploaded
C9_Witness ==
    /\ runs = 2
    /\ FolderCreated
    /\ \E f, g \in Folders : f.id # g.id /\ f.name = g.name /\ f.run = 1 /\ g.run = 2
    /\ \E f \in drive : f.kind = "file" /\ f.run = 1 /\ ~f.trashed /\
          \E n \in Ops("files_list") : calls[n].name = f.name /\ calls[n].res = "absent"

\* --------------------------------------------------------------------- C10
\* Calls to the storage service
StorageOps == {"files_create_folder", "files_list", "files_create"}

====
